---- MODULE Spec2Model ----
(***************************************************************************)
(* Model of kanboard_huggingface_agent (src/app.py): one process loads its *)
(* configuration, fetches the tasks of one Kanboard project, classifies    *)
(* them, builds a plain-text report, asks a Hugging Face model for a       *)
(* summary, saves the report under reports/ and, in a live run, mails it.  *)
(*                                                                         *)
(* Text is modelled as sequences of one-character strings wherever the     *)
(* code looks inside it (strip, lower, int), and as sequences of pieces    *)
(* where the code only concatenates.                                       *)
(***************************************************************************)
EXTENDS Integers, Sequences, FiniteSets, TLC

\* ---------------------------------------------------------------- bounds
MaxTasks == 3          \* longest task list handed to classify_tasks
MaxFetch == 2          \* longest task list the tracker returns in a run
MaxRuns  == 2          \* processes started one after the other
MaxClock == 3          \* last instant (tick) of the wall clock
TicksPerSecond == 2    \* clock ticks in one second of wall-clock time
MaxUnset == 2          \* settings left unset or empty in one environment

\* ------------------------------------------------------- python values
\* Python's None for optional text; no character sequence equals it.
None == <<"None">>

\* Absent integer field (dict.get returning None).
NoInt == -1

\* Truthiness of an optional text: None and "" are falsy.
Truthy(s) == s # None /\ s # <<>>

UpperChars == <<"A","B","C","D","E","F","G","H","I","J","K","L","M",
                "N","O","P","Q","R","S","T","U","V","W","X","Y","Z">>
LowerChars == <<"a","b","c","d","e","f","g","h","i","j","k","l","m",
                "n","o","p","q","r","s","t","u","v","w","x","y","z">>

Whitespace == {" ", "\t", "\n"}

CharLower(c) ==
    IF \E i \in 1..Len(UpperChars) : UpperChars[i] = c
    THEN LowerChars[CHOOSE i \in 1..Len(UpperChars) : UpperChars[i] = c]
    ELSE c

\* str.lower()
str_lower(s) == [i \in 1..Len(s) |-> CharLower(s[i])]

RECURSIVE str_lstrip(_)
str_lstrip(s) ==
    IF s # <<>> /\ Head(s) \in Whitespace THEN str_lstrip(Tail(s)) ELSE s

RECURSIVE str_rstrip(_)
str_rstrip(s) ==
    IF s # <<>> /\ s[Len(s)] \in Whitespace
    THEN str_rstrip(SubSeq(s, 1, Len(s) - 1)) ELSE s

\* str.strip()
str_strip(s) == str_rstrip(str_lstrip(s))

\* x in list
InList(x, list) == \E i \in 1..Len(list) : list[i] = x

\* ------------------------------------------------------- classification
wip_columns ==
    << <<"w","o","r","k"," ","i","n"," ","p","r","o","g","r","e","s","s">>,
       <<"d","e","v">>,
       <<"q","c">>,
       <<"u","a","t">>,
       <<"s","t","a","g","i","n","g">>,
       <<"p","r","o","d","u","c","t","i","o","n">> >>

blocked_columns == << >>

\* TaskCol with the call to lower() forgotten.
TaskCol_NoLower(t) ==
    str_strip(IF Truthy(t.column_name) THEN t.column_name ELSE <<>>)

\* col = (t.get("column_name") or "").strip().lower()
TaskCol(t) ==
    str_lower(str_strip(IF Truthy(t.column_name) THEN t.column_name ELSE <<>>))

LowerAll(cols) == [i \in 1..Len(cols) |-> str_lower(cols[i])]

\* ClassifyStep inserting at the front of the wip list.
ClassifyStep_Prepend(acc, t) ==
    IF InList(TaskCol(t), LowerAll(wip_columns))
    THEN <<(<<t>> \o acc[1]), acc[2]>>
    ELSE IF InList(TaskCol(t), LowerAll(blocked_columns))
         THEN <<acc[1], Append(acc[2], t)>>
         ELSE acc

\* One iteration of the loop of classify_tasks on the pair <<wip, blocked>>.
ClassifyStep(acc, t) ==
    IF InList(TaskCol(t), LowerAll(wip_columns))
    THEN <<Append(acc[1], t), acc[2]>>
    ELSE IF InList(TaskCol(t), LowerAll(blocked_columns))
         THEN <<acc[1], Append(acc[2], t)>>
         ELSE acc

RECURSIVE ClassifyLoop(_, _)
ClassifyLoop(acc, ts) ==
    IF ts = <<>> THEN acc
    ELSE ClassifyLoop(ClassifyStep(acc, Head(ts)), Tail(ts))

classify_tasks(ts) == ClassifyLoop(<< <<>>, <<>> >>, ts)

\* ------------------------------------------------------------- report
\* datetime.fromtimestamp(x).strftime("%Y-%m-%d"): the calendar day of x.
FormatDay(epoch) == [day |-> epoch \div 86400]

\* t.get("date_due") and <formatted day> or "No due"
DueText(t) ==
    IF t.date_due # NoInt /\ t.date_due # 0
    THEN [due |-> "day", day |-> FormatDay(t.date_due).day]
    ELSE [due |-> "No due", day |-> 0]

BlankLine == [kind |-> "blank"]

TaskLine(t) ==
    [kind |-> "task", title |-> t.title, id |-> t.id, due |-> DueText(t),
     column |-> t.column_name]

TaskLines(items) == [i \in 1..Len(items) |-> TaskLine(items[i])]

\* section without the "None" line of an empty bucket.
section_NoNone(title, items) ==
    <<[kind |-> "header", title |-> title]>> \o TaskLines(items) \o <<BlankLine>>

\* section(title, items): the text lines it appends ("  None\n" is a line
\* followed by an empty one, as is the closing "").
section(title, items) ==
    <<[kind |-> "header", title |-> title]>> \o
    (IF items = <<>>
     THEN <<[kind |-> "none"], BlankLine>>
     ELSE TaskLines(items) \o <<BlankLine>>)

\* build_report_text: the lines of "\n".join(lines); now is datetime.now()
\* formatted to the second.
build_report_text(project_id, wip_, blocked_, now) ==
    << [kind |-> "title", project |-> project_id],
       [kind |-> "generated", now |-> now],
       BlankLine,
       [kind |-> "counts", InProgress |-> Len(wip_), Blocked |-> Len(blocked_)],
       BlankLine >>
    \o section("Work In Progress", wip_)
    \o section("Blocked / On Hold", blocked_)

\* ------------------------------------------------------------ summary
\* hf_summary given the provider's answer: the completion text, or the
\* placeholder built in the except branch. It never raises.
hf_summary(report_text, resp) ==
    IF resp.kind = "ok"
    THEN [raised |-> FALSE, value |-> resp.content]
    ELSE [raised |-> FALSE,
          value |-> <<"Unable to generate summary. Error: ", resp.msg>>]

\* ------------------------------------------------------------ persist
\* Timestamp with a format that stops at the minute.
Timestamp_Minute(t) == t \div (TicksPerSecond * 60)

\* datetime.now().strftime(...%S): the clock cut to whole seconds.
Timestamp(t) == t \div TicksPerSecond

\* os.path.join(folder, f"kanboard_report_{timestamp}.txt")
ReportFileName(folder, stamp) == <<folder, "kanboard_report_", stamp, ".txt">>

\* ReportFileContent writing the raw report only when there is no summary.
ReportFileContent_SummaryOnly(report_text, summary_text) ==
    IF Truthy(summary_text)
    THEN << [kind |-> "header", text |-> "===== HF Summary ====="],
            [kind |-> "summary", body |-> summary_text] >>
    ELSE << [kind |-> "header", text |-> "===== Kanboard Raw Report ====="],
            [kind |-> "report", body |-> report_text] >>

\* The chunks save_report writes, in order.
ReportFileContent(report_text, summary_text) ==
    (IF Truthy(summary_text)
     THEN << [kind |-> "header", text |-> "===== HF Summary ====="],
             [kind |-> "summary", body |-> summary_text] >>
     ELSE << >>)
    \o << [kind |-> "header", text |-> "===== Kanboard Raw Report ====="],
          [kind |-> "report", body |-> report_text] >>

\* WriteFile whose writes never reach the directory.
WriteFile_Lost(fs, name, chunks) == fs

\* open(filename, "w") followed by the writes that succeeded.
WriteFile(fs, name, chunks) ==
    [f \in DOMAIN fs \cup {name} |-> IF f = name THEN chunks ELSE fs[f]]

\* -------------------------------------------------------------- email
RECURSIVE SplitAcc(_, _, _, _)
SplitAcc(s, sep, cur, out) ==
    IF s = <<>> THEN Append(out, cur)
    ELSE IF Head(s) = sep THEN SplitAcc(Tail(s), sep, <<>>, Append(out, cur))
    ELSE SplitAcc(Tail(s), sep, Append(cur, Head(s)), out)

\* str.split(sep)
str_split(s, sep) == SplitAcc(s, sep, <<>>, <<>>)

\* [x.strip() for x in EMAIL_TO.split(",")]
Recipients(to) ==
    LET parts == str_split(to, ",")
    IN  [i \in 1..Len(parts) |-> str_strip(parts[i])]

\* body = f"Hugging Face summary:...{summary}...{plain}" if summary else plain
EmailBody(summary_, plain_) ==
    IF Truthy(summary_)
    THEN <<"Hugging Face summary:", summary_, "---", plain_>>
    ELSE <<plain_>>

\* ------------------------------------------------------ configuration
Digits == <<"0","1","2","3","4","5","6","7","8","9">>

IsDigit(c) == \E i \in 1..Len(Digits) : Digits[i] = c

DigitVal(c) == (CHOOSE i \in 1..Len(Digits) : Digits[i] = c) - 1

\* int(s) raises ValueError unless s is a decimal numeral.
IsInt(s) == s # <<>> /\ \A i \in 1..Len(s) : IsDigit(s[i])

RECURSIVE ParseInt(_)
ParseInt(s) ==
    IF s = <<>> THEN 0
    ELSE 10 * ParseInt(SubSeq(s, 1, Len(s) - 1)) + DigitVal(s[Len(s)])

\* os.getenv(name, default)
getenv(e, name, default) == IF e[name] = None THEN default ELSE e[name]

RequiredText ==
    {"HF_API_KEY", "KB_URL", "KB_USER", "KB_TOKEN",
     "EMAIL_USER", "EMAIL_PASS", "EMAIL_TO"}

EnvNames == RequiredText \cup {"KB_PROJECT_ID", "EMAIL_SMTP_PORT"}

ProjectIdText(e) == getenv(e, "KB_PROJECT_ID", <<"1","6">>)

SmtpPortText(e) == getenv(e, "EMAIL_SMTP_PORT", <<"5","8","7">>)

\* ConfigComplete with EMAIL_TO left out of the list.
ConfigComplete_NoRecipients(e, project_id) ==
    /\ \A k \in RequiredText \ {"EMAIL_TO"} : Truthy(e[k])
    /\ project_id # 0

\* all([HF_API_KEY, KANBOARD_URL, ..., PROJECT_ID, ..., EMAIL_TO])
ConfigComplete(e, project_id) ==
    /\ \A k \in RequiredText : Truthy(e[k])
    /\ project_id # 0

\* ------------------------------------------------------------ tracker
\* kb_call without the check of the "error" member.
kb_call_Lenient(resp) ==
    IF resp.kind = "transport" THEN [raised |-> TRUE, exc |-> "RequestException"]
    ELSE IF resp.kind = "http" THEN [raised |-> TRUE, exc |-> "HTTPError"]
    ELSE [raised |-> FALSE, result |-> resp.result]

\* kb_call on the tracker's answer: raise_for_status, then the "error" key.
kb_call(resp) ==
    IF resp.kind = "transport" THEN [raised |-> TRUE, exc |-> "RequestException"]
    ELSE IF resp.kind = "http" THEN [raised |-> TRUE, exc |-> "HTTPError"]
    ELSE IF resp.error THEN [raised |-> TRUE, exc |-> "RuntimeError"]
    ELSE [raised |-> FALSE, result |-> resp.result]

\* task_info.get("column_title") or "Unknown"
BackfillColumn(task_info) ==
    IF Truthy(task_info.column_title) THEN task_info.column_title
    ELSE <<"U","n","k","n","o","w","n">>

\* ------------------------------------------------------------- inputs
Titles == {"Fix login"}

TaskIds == 1..MaxTasks

DueValues == {NoInt, 90000}

Dev == <<"D","e","v">>

Blocked == <<"B","l","o","c","k","e","d">>

\* Column labels handed to classify_tasks.
ColumnLabels ==
    { None, Dev, <<" ","U","A","T","\t">>, Blocked,
      <<"W","o","r","k"," ","I","n"," ","P","r","o","g","r","e","s","s">> }

\* What the tracker holds for the column of one task: column_name as
\* getAllTasks reports it (None: not reported) and column_title as getTask
\* reports it.
TrackerColumns ==
    { [name |-> None, title |-> None],
      [name |-> None, title |-> <<" ","q","c">>],
      [name |-> Dev, title |-> Dev],
      [name |-> Blocked, title |-> Blocked] }

Injective(f) == \A i, j \in DOMAIN f : f[i] = f[j] => i = j

\* Task lists of length k with distinct ids.
TaskListsOfLen(k, labels, dues) ==
    { [i \in 1..k |-> [id |-> ids[i], title |-> ttl, column_name |-> cols[i],
                        date_due |-> ds[i]]] :
        ids \in {f \in [1..k -> TaskIds] : Injective(f)},
        cols \in [1..k -> labels], ds \in [1..k -> dues], ttl \in Titles }

TaskLists(n, labels, dues) ==
    UNION { TaskListsOfLen(k, labels, dues) : k \in 0..n }

\* The project as the tracker holds it: at most MaxFetch tasks, numbered
\* in creation order.
Boards ==
    UNION { { [i \in 1..k |-> [id |-> i, title |-> ttl, date_due |-> NoInt,
                                column_name |-> cols[i].name,
                                column_title |-> cols[i].title]] :
                cols \in [1..k -> TrackerColumns], ttl \in Titles } :
            k \in 0..MaxFetch }

\* How a call to the tracker can go: an answer, a transport error, an HTTP
\* error status, or a JSON-RPC answer carrying "error".
KbFaults == {"none", "transport", "http", "api"}

\* What requests.post meets; result is the "result" member the tracker
\* computed, which kb_call reads only from an answer without error.
KbResponse(fault, result) ==
    [kind |-> IF fault \in {"none", "api"} THEN "json" ELSE fault,
     error |-> (fault # "none"),
     result |-> result]

\* The tracker's result for getAllTasks.
GetAllTasksResult(b) ==
    [i \in 1..Len(b) |-> [id |-> b[i].id, title |-> b[i].title,
                          column_name |-> b[i].column_name,
                          date_due |-> b[i].date_due]]

\* The tracker's result for getTask.
GetTaskResult(b, task_id) ==
    LET i == CHOOSE j \in 1..Len(b) : b[j].id = task_id
    IN  [column_title |-> b[i].column_title]

\* Answers of the text-generation provider; "error" and "malformed" make
\* the code inside the try block raise.
HfResponses ==
    { [kind |-> "ok", content |-> <<"Risks, actions, tips">>, msg |-> ""],
      [kind |-> "ok", content |-> << >>, msg |-> ""],
      [kind |-> "error", content |-> << >>, msg |-> "timeout"],
      [kind |-> "malformed", content |-> << >>, msg |-> "list index out of range"] }

SetText == <<"x">>

TextValues == { None, << >>, SetText }

Unset(e) == { k \in RequiredText : ~Truthy(e[k]) }

\* Process environments: at most MaxUnset required settings unset or empty.
Envs ==
    { [k \in EnvNames |->
         IF k = "KB_PROJECT_ID" THEN pid
         ELSE IF k = "EMAIL_SMTP_PORT" THEN port
         ELSE IF k = "EMAIL_TO" /\ req[k] = SetText THEN <<"a", ",", " ", "b">>
         ELSE req[k]] :
        req \in { r \in [RequiredText -> TextValues] :
                    Cardinality({k \in RequiredText : r[k] # SetText}) <= MaxUnset },
        pid \in { None, << >>, <<"0">>, <<"7">>, <<"x">> },
        port \in { None, <<"2","5">>, <<"x">> } }

\* Environments that pass the configuration check.
ValidEnvs ==
    { e \in Envs : /\ IsInt(ProjectIdText(e)) /\ IsInt(SmtpPortText(e))
                   /\ ConfigComplete(e, ParseInt(ProjectIdText(e))) }

\* The environment with every required setting present and the optional
\* ones left to their defaults.
DefaultEnv ==
    CHOOSE e \in ValidEnvs :
        e["KB_PROJECT_ID"] = None /\ e["EMAIL_SMTP_PORT"] = None

\* --------------------------------------------------------------- state
VARIABLES
    env,              \* os.environ of the process
    board,            \* the project's tasks as the tracker holds them
    test_only,        \* argument of run()
    pc,               \* position of the process
    exitCode,         \* exit status once halted (NoInt while running)
    err,              \* uncaught exception that ended the process, "" if none
    PROJECT_ID,       \* module global
    EMAIL_SMTP_PORT,  \* module global
    tasks,            \* fetch_tasks: the list being backfilled / returned
    idx,              \* fetch_tasks: position of the for loop
    wip,              \* run: first result of classify_tasks
    blocked,          \* run: second result of classify_tasks
    plain,            \* run: report text
    summary,          \* run: summary text
    saved,            \* name returned by save_report in this process, or None
    files,            \* the reports directory: file name -> chunks written
    clock,            \* wall clock, in ticks
    kbCalls,          \* requests posted to the tracker by this process
    hfCalls,          \* chat.completions.create calls made by this process
    emailCalls,       \* send_email calls made by this process
    outbox,           \* messages the mail transport accepted from this process
    stdout,           \* what this process printed
    faults,           \* collaborators that failed on a call of this process
    runs              \* processes started so far

cfgVars == <<env, board, test_only, PROJECT_ID, EMAIL_SMTP_PORT>>
fetchVars == <<tasks, idx>>
reportVars == <<wip, blocked, plain>>
ioVars == <<kbCalls, hfCalls, emailCalls, outbox, stdout>>

vars == <<env, board, test_only, pc, exitCode, err, PROJECT_ID, EMAIL_SMTP_PORT,
          tasks, idx, wip, blocked, plain, summary, saved, files, clock,
          kbCalls, hfCalls, emailCalls, outbox, stdout, faults, runs>>

NoFiles == [f \in {} |-> << >>]

\* The first process has just been started, nothing executed yet.
Init ==
    /\ pc = "load"
    /\ exitCode = NoInt
    /\ err = ""
    /\ PROJECT_ID = NoInt
    /\ EMAIL_SMTP_PORT = NoInt
    /\ tasks = << >>
    /\ idx = 0
    /\ wip = << >>
    /\ blocked = << >>
    /\ plain = << >>
    /\ summary = None
    /\ saved = None
    /\ kbCalls = 0
    /\ hfCalls = 0
    /\ emailCalls = 0
    /\ outbox = << >>
    /\ stdout = << >>
    /\ faults = {}
    /\ env \in ValidEnvs
    /\ board \in Boards
    /\ test_only \in BOOLEAN
    /\ files = NoFiles
    /\ clock = 0
    /\ runs = 1

\* An uncaught exception (exit status 1), sys.exit(code), or a normal end.
Halt(code, e) ==
    /\ pc' = "halted"
    /\ exitCode' = code
    /\ err' = e

\* Module level, lines 27-47: read the settings, check them, build the client.
LoadConfig ==
    /\ pc = "load"
    /\ IF ~IsInt(ProjectIdText(env)) \/ ~IsInt(SmtpPortText(env))
       THEN /\ Halt(1, "ValueError")
            /\ UNCHANGED <<PROJECT_ID, EMAIL_SMTP_PORT>>
       ELSE /\ PROJECT_ID' = ParseInt(ProjectIdText(env))
            /\ EMAIL_SMTP_PORT' = ParseInt(SmtpPortText(env))
            /\ IF ConfigComplete(env, PROJECT_ID')
               THEN pc' = "fetch" /\ UNCHANGED <<exitCode, err>>
               ELSE Halt(2, "SystemExit")
    /\ UNCHANGED <<env, board, test_only, fetchVars, reportVars, summary, saved,
                   files, clock, ioVars, faults, runs>>

\* fetch_tasks, line 75: the getAllTasks call.
FetchAll ==
    /\ pc = "fetch"
    /\ \E fault \in KbFaults :
         LET resp == KbResponse(fault, GetAllTasksResult(board))
             r == kb_call(resp) IN
         /\ faults' = IF fault # "none" THEN faults \cup {"tracker"} ELSE faults
         /\ IF r.raised
            THEN Halt(1, r.exc) /\ UNCHANGED fetchVars
            ELSE /\ tasks' = r.result
                 /\ idx' = 1
                 /\ pc' = "backfill"
                 /\ UNCHANGED <<exitCode, err>>
    /\ kbCalls' = kbCalls + 1
    /\ UNCHANGED <<cfgVars, reportVars, summary, saved, files, clock,
                   hfCalls, emailCalls, outbox, stdout, runs>>

\* fetch_tasks, lines 76-79: a task without column_name is looked up.
BackfillLookup ==
    /\ pc = "backfill"
    /\ idx <= Len(tasks)
    /\ ~Truthy(tasks[idx].column_name)
    /\ \E fault \in KbFaults :
         LET resp == KbResponse(fault, GetTaskResult(board, tasks[idx].id))
             r == kb_call(resp) IN
         /\ faults' = IF fault # "none" THEN faults \cup {"tracker"} ELSE faults
         /\ IF r.raised
            THEN Halt(1, r.exc) /\ UNCHANGED fetchVars
            ELSE /\ tasks' = [tasks EXCEPT
                                ![idx].column_name = BackfillColumn(r.result)]
                 /\ idx' = idx + 1
                 /\ UNCHANGED <<pc, exitCode, err>>
    /\ kbCalls' = kbCalls + 1
    /\ UNCHANGED <<cfgVars, reportVars, summary, saved, files, clock,
                   hfCalls, emailCalls, outbox, stdout, runs>>

\* fetch_tasks, lines 76-77: a task that has its column_name is left alone.
BackfillSkip ==
    /\ pc = "backfill"
    /\ idx <= Len(tasks)
    /\ Truthy(tasks[idx].column_name)
    /\ idx' = idx + 1
    /\ UNCHANGED <<cfgVars, pc, exitCode, err, tasks, reportVars, summary,
                   saved, files, clock, ioVars, faults, runs>>

\* fetch_tasks, line 80: the loop is over, the list is returned to run.
FetchReturn ==
    /\ pc = "backfill"
    /\ idx > Len(tasks)
    /\ pc' = "classify"
    /\ UNCHANGED <<cfgVars, exitCode, err, fetchVars, reportVars, summary,
                   saved, files, clock, ioVars, faults, runs>>

\* run, line 198.
Classify ==
    /\ pc = "classify"
    /\ wip' = classify_tasks(tasks)[1]
    /\ blocked' = classify_tasks(tasks)[2]
    /\ pc' = "build"
    /\ UNCHANGED <<cfgVars, exitCode, err, fetchVars, plain, summary, saved,
                   files, clock, ioVars, faults, runs>>

\* run, line 199.
BuildReport ==
    /\ pc = "build"
    /\ plain' = build_report_text(PROJECT_ID, wip, blocked, Timestamp(clock))
    /\ pc' = "summarize"
    /\ UNCHANGED <<cfgVars, exitCode, err, fetchVars, wip, blocked, summary,
                   saved, files, clock, ioVars, faults, runs>>

\* run, lines 201-205: hf_summary under run's own try/except.
Summarize ==
    /\ pc = "summarize"
    /\ \E resp \in HfResponses :
         LET r == hf_summary(plain, resp) IN
         /\ faults' = IF resp.kind # "ok" THEN faults \cup {"hf"} ELSE faults
         /\ summary' = IF r.raised THEN None ELSE r.value
    /\ hfCalls' = hfCalls + 1
    /\ pc' = "save"
    /\ UNCHANGED <<cfgVars, exitCode, err, fetchVars, reportVars, saved,
                   files, clock, kbCalls, emailCalls, outbox, stdout, runs>>

\* AfterSave without the test of test_only.
AfterSave_AlwaysEmail(dry) == "email"

\* run, lines 209-219: what follows save_report.
AfterSave(dry) == IF dry THEN "print" ELSE "email"

\* run, line 207: save_report returns.
SaveReport ==
    /\ pc = "save"
    /\ LET name == ReportFileName("reports", Timestamp(clock)) IN
       /\ files' = WriteFile(files, name, ReportFileContent(plain, summary))
       /\ saved' = name
    /\ pc' = AfterSave(test_only)
    /\ UNCHANGED <<cfgVars, exitCode, err, fetchVars, reportVars, summary,
                   clock, ioVars, faults, runs>>

\* save_report raises OSError: from makedirs or open (no file touched), or
\* from a write after open truncated the file (k chunks got through).
SaveReportFails ==
    /\ pc = "save"
    /\ LET name == ReportFileName("reports", Timestamp(clock))
           chunks == ReportFileContent(plain, summary) IN
       \/ UNCHANGED files
       \/ \E k \in 0..(Len(chunks) - 1) :
            files' = WriteFile(files, name, SubSeq(chunks, 1, k))
    /\ faults' = faults \cup {"fs"}
    /\ Halt(1, "OSError")
    /\ UNCHANGED <<cfgVars, fetchVars, reportVars, summary, saved, clock,
                   ioVars, runs>>

\* run, lines 209-215: the dry run prints and returns.
PrintReport ==
    /\ pc = "print"
    /\ stdout' = << "===== Kanboard Raw Report =====", plain >> \o
                 (IF Truthy(summary)
                  THEN << "===== HF Summary =====", summary >> ELSE << >>)
    /\ Halt(0, "")
    /\ UNCHANGED <<cfgVars, fetchVars, reportVars, summary, saved, files,
                   clock, kbCalls, hfCalls, emailCalls, outbox, faults, runs>>

\* The message send_email hands to the transport.
Message ==
    [subject |-> <<"Kanboard Report - Project ", PROJECT_ID>>,
     sender |-> env["EMAIL_USER"],
     to |-> Recipients(env["EMAIL_TO"]),
     starttls |-> (EMAIL_SMTP_PORT = 587),
     body |-> EmailBody(summary, plain)]

\* run, lines 217-220: the live run mails the report and logs the counts.
SendEmail ==
    /\ pc = "email"
    /\ emailCalls' = emailCalls + 1
    /\ outbox' = Append(outbox, Message)
    /\ Halt(0, "")
    /\ UNCHANGED <<cfgVars, fetchVars, reportVars, summary, saved, files,
                   clock, kbCalls, hfCalls, stdout, faults, runs>>

\* send_email raises (connect, starttls, login or sendmail fails).
SendEmailFails ==
    /\ pc = "email"
    /\ emailCalls' = emailCalls + 1
    /\ faults' = faults \cup {"smtp"}
    /\ Halt(1, "SMTPException")
    /\ UNCHANGED <<cfgVars, fetchVars, reportVars, summary, saved, files,
                   clock, kbCalls, hfCalls, outbox, stdout, runs>>

\* Wall-clock time passes.
Tick ==
    /\ clock < MaxClock
    /\ clock' = clock + 1
    /\ UNCHANGED <<cfgVars, pc, exitCode, err, fetchVars, reportVars, summary,
                   saved, files, ioVars, faults, runs>>

\* The script is started again in the same environment; only the reports
\* directory and the clock outlive a process.
NewProcess ==
    /\ pc = "halted"
    /\ runs < MaxRuns
    /\ runs' = runs + 1
    /\ test_only' \in BOOLEAN
    /\ pc' = "load"
    /\ exitCode' = NoInt
    /\ err' = ""
    /\ PROJECT_ID' = NoInt
    /\ EMAIL_SMTP_PORT' = NoInt
    /\ tasks' = << >>
    /\ idx' = 0
    /\ wip' = << >>
    /\ blocked' = << >>
    /\ plain' = << >>
    /\ summary' = None
    /\ saved' = None
    /\ kbCalls' = 0
    /\ hfCalls' = 0
    /\ emailCalls' = 0
    /\ outbox' = << >>
    /\ stdout' = << >>
    /\ faults' = {}
    /\ UNCHANGED <<env, board, files, clock>>

\* The steps of one process.
NextRun ==
    \/ LoadConfig
    \/ FetchAll
    \/ BackfillLookup
    \/ BackfillSkip
    \/ FetchReturn
    \/ Classify
    \/ BuildReport
    \/ Summarize
    \/ SaveReport
    \/ SaveReportFails
    \/ PrintReport
    \/ SendEmail
    \/ SendEmailFails
    \/ Tick

\* One process in an environment that passes the configuration check.
Spec == Init /\ [][NextRun]_vars

\* ------------------------------------------------ any environment
DemoBoard ==
    << [id |-> 1, title |-> "Fix login", date_due |-> NoInt,
        column_name |-> None, column_title |-> None],
       [id |-> 2, title |-> "Fix login", date_due |-> NoInt,
        column_name |-> Dev, column_title |-> Dev] >>

InitConfig ==
    /\ pc = "load"
    /\ exitCode = NoInt
    /\ err = ""
    /\ PROJECT_ID = NoInt
    /\ EMAIL_SMTP_PORT = NoInt
    /\ tasks = << >>
    /\ idx = 0
    /\ wip = << >>
    /\ blocked = << >>
    /\ plain = << >>
    /\ summary = None
    /\ saved = None
    /\ kbCalls = 0
    /\ hfCalls = 0
    /\ emailCalls = 0
    /\ outbox = << >>
    /\ stdout = << >>
    /\ faults = {}
    /\ env \in Envs
    /\ board = DemoBoard
    /\ test_only \in BOOLEAN
    /\ files = NoFiles
    /\ clock = 0
    /\ runs = 1

\* One process in any environment, complete or not.
SpecConfig == InitConfig /\ [][NextRun]_vars

\* ------------------------------------------------ a sequence of runs
InitRuns ==
    /\ Init
    /\ env = DefaultEnv
    /\ Len(board) <= 1

NextRuns == NextRun \/ NewProcess

\* Processes started one after the other on the same reports directory.
SpecRuns == InitRuns /\ [][NextRuns]_vars

\* ------------------------------------------------ pure functions
\* The settled part of a process that is past fetch_tasks.
PastFetch ==
    /\ board = << >>
    /\ env = DefaultEnv
    /\ test_only = TRUE
    /\ PROJECT_ID = ParseInt(ProjectIdText(env))
    /\ EMAIL_SMTP_PORT = ParseInt(SmtpPortText(env))
    /\ exitCode = NoInt
    /\ err = ""
    /\ plain = << >>
    /\ summary = None
    /\ saved = None
    /\ files = NoFiles
    /\ clock = 0
    /\ kbCalls = 1
    /\ hfCalls = 0
    /\ emailCalls = 0
    /\ outbox = << >>
    /\ stdout = << >>
    /\ faults = {}
    /\ runs = 1

\* classify_tasks is about to be applied to any bounded task list.
InitClassify ==
    /\ pc = "classify"
    /\ tasks \in TaskLists(MaxTasks, ColumnLabels, {NoInt})
    /\ idx = Len(tasks) + 1
    /\ wip = << >>
    /\ blocked = << >>
    /\ PastFetch

NextClassify == Classify \/ BuildReport

SpecClassify == InitClassify /\ [][NextClassify]_vars

\* build_report_text is about to be applied to any bounded pair of buckets.
InitBuild ==
    /\ pc = "build"
    /\ tasks = << >>
    /\ idx = 1
    /\ \E l \in TaskLists(MaxTasks, {Dev, Blocked}, DueValues) :
         \E k \in 0..Len(l) :
           /\ wip = SubSeq(l, 1, k)
           /\ blocked = SubSeq(l, k + 1, Len(l))
    /\ PastFetch

NextBuild == BuildReport

SpecBuild == InitBuild /\ [][NextBuild]_vars

\* ======================================================== properties
RawHeader == "===== Kanboard Raw Report ====="

SummaryHeader == "===== HF Summary ====="

HasHeader(chunks, text) ==
    \E i \in 1..Len(chunks) : chunks[i].kind = "header" /\ chunks[i].text = text

HasReport(chunks, body) ==
    \E i \in 1..Len(chunks) : chunks[i].kind = "report" /\ chunks[i].body = body

NoWork ==
    /\ kbCalls = 0
    /\ hfCalls = 0
    /\ emailCalls = 0
    /\ files = NoFiles
    /\ saved = None
    /\ outbox = << >>

\* C1: when the text-generation call fails, the file written by save_report
\* has the raw-report section and no summary section.
C1_FailedSummaryOmitted ==
    ("hf" \in faults /\ saved # None) =>
        /\ HasHeader(files[saved], RawHeader)
        /\ ~HasHeader(files[saved], SummaryHeader)

\* C2: a failure of the text-generation call does not end the run: the
\* process goes on to save_report, an exception that ends it later is
\* save_report's or send_email's own, and the file save_report writes
\* contains the raw report text.
C2_HfFailureAbsorbed ==
    "hf" \in faults =>
        /\ hfCalls = 1
        /\ pc \in {"save", "print", "email", "halted"}
        /\ pc = "halted" => err \in {"", "OSError", "SMTPException"}
        /\ (pc \in {"print", "email"} \/ (pc = "halted" /\ "fs" \notin faults))
              => saved # None
        /\ saved # None =>
              /\ saved \in DOMAIN files
              /\ plain # << >>
              /\ HasReport(files[saved], plain)

C2_Witness ==
    /\ "hf" \in faults
    /\ pc = "halted"
    /\ exitCode = 0
    /\ saved \in DOMAIN files
    /\ HasReport(files[saved], plain)

\* C3: send_email is entered only after save_report has returned, so when
\* the mail transport fails the complete report file of the run is on disk.
C3_EmailAfterSave ==
    (pc = "email" \/ emailCalls > 0 \/ "smtp" \in faults) =>
        /\ saved # None
        /\ saved \in DOMAIN files
        /\ files[saved] # << >>
        /\ files[saved][Len(files[saved])] = [kind |-> "report", body |-> plain]

C3_Witness ==
    /\ "smtp" \in faults
    /\ pc = "halted"
    /\ err = "SMTPException"
    /\ saved \in DOMAIN files

Complete(chunks) ==
    chunks # << >> /\ chunks[Len(chunks)].kind = "report"

\* C4 as stated: a save_report that returns has written a file other than
\* the report files that earlier runs completed, and has left those as
\* they were.
C4_NeverOverwrites ==
    [][(pc = "save" /\ pc' \in {"print", "email"}) =>
          \A f \in DOMAIN files :
             Complete(files[f]) =>
                (saved' # f /\ f \in DOMAIN files' /\ files'[f] = files[f])
      ]_vars

\* C4 amended: save_report writes the file named by the current second and
\* leaves the files named by other seconds as they are; a save_report that
\* returns has put the run's report into the file of its second.
C4_OverwritesOnlySameSecond ==
    [][files' # files =>
          LET name == <<"reports", "kanboard_report_",
                       clock \div TicksPerSecond, ".txt">>
          IN  /\ name \in DOMAIN files'
              /\ \A f \in DOMAIN files :
                    f # name => (f \in DOMAIN files' /\ files'[f] = files[f])
              /\ pc' \in {"print", "email"} =>
                    (saved' = name /\ HasReport(files'[name], plain))
      ]_vars

C4_Witness ==
    /\ runs = 2
    /\ pc = "halted"
    /\ exitCode = 0
    /\ Cardinality(DOMAIN files) = 2
    /\ \A f \in DOMAIN files : HasHeader(files[f], RawHeader)

\* The column label as the claim normalizes it: absent is empty, and
\* surrounding whitespace does not count.
Normalized(label) ==
    IF label = None \/ label = << >> THEN << >>
    ELSE LET inked == {i \in 1..Len(label) : label[i] \notin Whitespace}
         IN  IF inked = {} THEN << >>
             ELSE SubSeq(label,
                         CHOOSE i \in inked : \A j \in inked : i <= j,
                         CHOOSE i \in inked : \A j \in inked : i >= j)

SameLetter(c, d) ==
    c = d \/ \E i \in 1..Len(UpperChars) : {c, d} = {UpperChars[i], LowerChars[i]}

EqualsIgnoreCase(a, b) ==
    Len(a) = Len(b) /\ \A i \in 1..Len(a) : SameLetter(a[i], b[i])

MatchesAny(label, names) ==
    \E n \in 1..Len(names) : EqualsIgnoreCase(Normalized(label), names[n])

Occurs(t, list) == \E j \in 1..Len(list) : list[j] = t

Unmatched ==
    {i \in 1..Len(tasks) : ~Occurs(tasks[i], wip) /\ ~Occurs(tasks[i], blocked)}

\* C5: classify_tasks puts a task into the active output iff its normalized
\* column label equals an active column name up to case, else into the
\* blocked output iff it equals a blocked column name; no task is in both,
\* and the sizes of active, blocked and unmatched add up to the input's.
C5_ClassifyByColumn ==
    pc \in {"build", "summarize"} =>
        /\ \A i \in 1..Len(tasks) :
             LET t == tasks[i] IN
             /\ Occurs(t, wip) <=> MatchesAny(t.column_name, wip_columns)
             /\ Occurs(t, blocked) <=>
                   (/\ ~MatchesAny(t.column_name, wip_columns)
                    /\ MatchesAny(t.column_name, blocked_columns))
             /\ ~(Occurs(t, wip) /\ Occurs(t, blocked))
        /\ \A j \in 1..Len(wip) : Occurs(wip[j], tasks)
        /\ \A j \in 1..Len(blocked) : Occurs(blocked[j], tasks)
        /\ Len(wip) + Len(blocked) + Cardinality(Unmatched) = Len(tasks)

C5_Witness ==
    /\ pc = "build"
    /\ Len(tasks) = MaxTasks
    /\ Unmatched # {}
    /\ \E j \in 1..Len(wip) :
         /\ wip[j].column_name # str_lower(wip[j].column_name)
         /\ wip[j].column_name # Normalized(wip[j].column_name)

PositionIn(t, list) == CHOOSE i \in 1..Len(list) : list[i] = t

InInputOrder(out) ==
    /\ \A i \in 1..Len(out) : Occurs(out[i], tasks)
    /\ \A i, j \in 1..Len(out) :
         i < j => PositionIn(out[i], tasks) < PositionIn(out[j], tasks)

\* C6: inside each output of classify_tasks the tasks keep the relative
\* order they have in the input.
C6_StablePartition ==
    pc \in {"build", "summarize"} => (InInputOrder(wip) /\ InInputOrder(blocked))

C6_Witness ==
    /\ pc = "build"
    /\ Len(wip) >= 2
    /\ wip[1].id > wip[2].id
    /\ Len(wip) < Len(tasks)

\* C7: when a call to the tracker fails, in getAllTasks or in a getTask
\* lookup, the run ends with that error: no text-generation call, no file,
\* no email.
C7_TrackerFailureFatal ==
    "tracker" \in faults =>
        /\ pc = "halted"
        /\ exitCode = 1
        /\ err \in {"RequestException", "HTTPError", "RuntimeError"}
        /\ plain = << >>
        /\ hfCalls = 0
        /\ saved = None
        /\ files = NoFiles
        /\ emailCalls = 0
        /\ outbox = << >>

C7_Witness ==
    /\ "tracker" \in faults
    /\ kbCalls > 1
    /\ err = "RuntimeError"
    /\ pc = "halted"

\* C8: a dry run that gets through save_report has the file and never
\* calls send_email; a live run past save_report calls send_email exactly
\* once, with the file already written.
C8_DryRunNoEmail ==
    /\ test_only =>
          /\ emailCalls = 0
          /\ outbox = << >>
          /\ pc # "email"
          /\ (pc = "print" \/ (pc = "halted" /\ exitCode = 0)) =>
                (saved # None /\ saved \in DOMAIN files)
    /\ (~test_only /\ saved # None) =>
          /\ saved \in DOMAIN files
          /\ \/ pc = "email" /\ emailCalls = 0
             \/ pc = "halted" /\ emailCalls = 1
    /\ ~test_only => (saved = None => emailCalls = 0)

C8_Witness ==
    /\ test_only
    /\ pc = "halted"
    /\ exitCode = 0
    /\ "hf" \in faults
    /\ saved \in DOMAIN files

NumbersParse == IsInt(ProjectIdText(env)) /\ IsInt(SmtpPortText(env))

\* C9 as stated, for environments whose numeric settings are well formed:
\* with any of the eight settings missing the process exits with status 2
\* and has done nothing.
C9_MissingSettingExits2 ==
    (/\ pc # "load"
     /\ NumbersParse
     /\ \/ \E k \in RequiredText : env[k] = None
        \/ env["KB_PROJECT_ID"] = None)
    => (pc = "halted" /\ exitCode = 2 /\ NoWork)

\* C9 amended: with any of the seven text settings missing or empty, or a
\* project id of 0, the process halts having done nothing, with status 2
\* when KB_PROJECT_ID and EMAIL_SMTP_PORT are numerals (status 1 from
\* int() otherwise); a missing KB_PROJECT_ID alone is the project 16.
C9_MissingTextSettingHalts ==
    pc # "load" =>
        /\ (\E k \in RequiredText : env[k] = None \/ env[k] = << >>) =>
              /\ pc = "halted"
              /\ NoWork
              /\ exitCode = IF NumbersParse THEN 2 ELSE 1
        /\ env["KB_PROJECT_ID"] = <<"0">> =>
              (pc = "halted" /\ NoWork /\ exitCode = IF NumbersParse THEN 2 ELSE 1)
        /\ (/\ env["KB_PROJECT_ID"] = None
            /\ NumbersParse
            /\ \A k \in RequiredText : env[k] # None /\ env[k] # << >>) =>
              (PROJECT_ID = 16 /\ exitCode # 2)

C9_Witness ==
    /\ pc = "halted"
    /\ exitCode = 2
    /\ env["EMAIL_TO"] = None
    /\ \A k \in RequiredText \ {"EMAIL_TO"} : env[k] # None /\ env[k] # << >>

NotBlank(l) == l.kind # "blank"

\* The lines of the report from lo to hi, empty lines dropped.
Body(lo, hi) == SelectSeq(SubSeq(plain, lo, hi), NotBlank)

SectionShows(lines, bucket) ==
    IF bucket = << >> THEN lines = <<[kind |-> "none"]>>
    ELSE /\ Len(lines) = Len(bucket)
         /\ \A i \in 1..Len(lines) :
              /\ lines[i].kind = "task"
              /\ lines[i].id = bucket[i].id
              /\ lines[i].title = bucket[i].title
              /\ lines[i].column = bucket[i].column_name

LinesOfKind(k) == {i \in 1..Len(plain) : plain[i].kind = k}

HeaderLines(title) == {i \in LinesOfKind("header") : plain[i].title = title}

\* C10: the report has one counts line with the size of each bucket, then
\* the 'Work In Progress' section, then the 'Blocked / On Hold' section;
\* a section has one line per task of its bucket in bucket order, or the
\* single line 'None' iff the bucket is empty.
C10_ReportLayout ==
    pc = "summarize" =>
        LET cs == LinesOfKind("counts")
            ws == HeaderLines("Work In Progress")
            bs == HeaderLines("Blocked / On Hold")
        IN  /\ Cardinality(cs) = 1
            /\ Cardinality(ws) = 1
            /\ Cardinality(bs) = 1
            /\ LinesOfKind("header") = ws \cup bs
            /\ LET c == CHOOSE i \in cs : TRUE
                   w == CHOOSE i \in ws : TRUE
                   b == CHOOSE i \in bs : TRUE
               IN  /\ c < w
                   /\ w < b
                   /\ plain[c].InProgress = Len(wip)
                   /\ plain[c].Blocked = Len(blocked)
                   /\ SectionShows(Body(w + 1, b - 1), wip)
                   /\ SectionShows(Body(b + 1, Len(plain)), blocked)

C10_Witness ==
    /\ pc = "summarize"
    /\ wip = << >>
    /\ Len(blocked) >= 2
    /\ Cardinality(LinesOfKind("none")) = 1
    /\ Cardinality(LinesOfKind("task")) = Len(blocked)
====
